---- MODULE Spec2Model ----
(***************************************************************************)
(* Model of DULA2025/RSA_Factorization.                                    *)
(*                                                                         *)
(*   src/RSA_Multi_Method.py : generate_special_primes (twin 6k+1 / 6k+5   *)
(*                             sieve) and factor_large_semiprime (the four *)
(*                             stage orchestrator)                         *)
(*   src/John_D_Cook.py      : laplacian_eigenfunction_approach (probe),   *)
(*                             find_factors_using_finite_fields (pool      *)
(*                             fan-out and merge), verify_factorization    *)
(*                                                                         *)
(* Three specifications share the module: SieveSpec runs the sieve loop by *)
(* loop, OrchSpec / FairOrchSpec run the orchestrator stage by stage, and  *)
(* FanSpec runs the worker pool with every interleaving of its tasks.      *)
(***************************************************************************)
EXTENDS Integers, Sequences, FiniteSets, TLC

VARIABLES
    \* generate_special_primes, run on its own
    max_value, sieve_1, sieve_5, sieve_i, primes_out, spc,
    \* factor_large_semiprime
    n, max_prime, max_attempts, special_primes, result, pc, ret_stage,
    direct_failed,
    \* find_factors_using_finite_fields
    fn, max_power_list, cpu, poly_oracle, factors, init_factors, args_list,
    task_state, results, num_processes, pool_created, executed,
    found_factors, fpc

sieveVars == <<max_value, sieve_1, sieve_5, sieve_i, primes_out, spc>>
orchVars  == <<n, max_prime, max_attempts, special_primes, result, pc,
               ret_stage, direct_failed>>
fanVars   == <<fn, max_power_list, cpu, poly_oracle, factors, init_factors,
               args_list, task_state, results, num_processes, pool_created,
               executed, found_factors, fpc>>
vars == <<sieveVars, orchVars, fanVars>>

----------------------------------------------------------------------------
(* Bounds of the model *)

\* largest upper bound handed to the sieve when it is run on its own
MaxN == 150
\* the orchestrator is run on every Target in 1..MaxTarget (and BigTargets)
MaxTarget == 310
\* max_attempts ranges over 1..MaxAttempts
MaxAttempts == 2
\* the fan-out is run on every n in 1..MaxFanN
MaxFanN == 36
\* cpu_count() ranges over 1..MaxCpu
MaxCpu == 2

----------------------------------------------------------------------------
(* Arithmetic the code takes from Python / Sage / sympy.  The recursive     *)
(* ones are functions, so that an argument is evaluated once, when the     *)
(* function is applied.                                                    *)

IsqrtOf[x \in Nat] == CHOOSE r \in 0..x : r * r <= x /\ (r + 1) * (r + 1) > x

\* int(sqrt(x)), int(n.sqrt()): the floor of the square root
Isqrt(x) == IsqrtOf[x]

\* the smallest divisor of x above 1 (x itself when there is none below it)
SmallestDivisorOf[x \in Nat] ==
    LET r == IsqrtOf[x]
    IN  IF \E d \in 2..r : x % d = 0
        THEN CHOOSE d \in 2..r : x % d = 0 /\ \A e \in 2..(d - 1) : x % e # 0
        ELSE x

SmallestDivisor(x) == SmallestDivisorOf[x]

\* the primality oracle: is_prime (Sage) and isprime (sympy)
is_prime(x) == x >= 2 /\ SmallestDivisor(x) = x

MultiplicityOf[x \in Nat, p \in Nat] ==
    IF x % p = 0 THEN 1 + MultiplicityOf[x \div p, p] ELSE 0

StripFactorOf[x \in Nat, p \in Nat] ==
    IF x % p = 0 THEN StripFactorOf[x \div p, p] ELSE x

\* x without its factors p
StripFactor(x, p) == StripFactorOf[x, p]

FactorOf[x \in Nat] ==
    IF x <= 1 THEN << >>
    ELSE LET p == SmallestDivisorOf[x]
         IN  << <<p, MultiplicityOf[x, p]>> >> \o FactorOf[StripFactorOf[x, p]]

\* the general factorizer when it answers: the ascending sequence of
\* <<prime, exponent>> pairs of x (empty for x = 1)
factor(x) == FactorOf[x]

PowOf[b \in Nat, e \in Nat] == IF e = 0 THEN 1 ELSE b * PowOf[b, e - 1]

\* b ** e
Pow(b, e) == PowOf[b, e]

Min(a, b) == IF a <= b THEN a ELSE b

InsertInto[x \in Int, s \in Seq(Int)] ==
    IF s = << >> THEN <<x>>
    ELSE IF x <= Head(s) THEN <<x>> \o s
    ELSE <<Head(s)>> \o InsertInto[x, Tail(s)]

SortedOf[s \in Seq(Int)] ==
    IF s = << >> THEN << >> ELSE InsertInto[Head(s), SortedOf[Tail(s)]]

\* list.sort() / sorted(): ascending, duplicates kept
sorted(s) == SortedOf[s]

RECURSIVE SetToSortedSeq(_)
\* sorted(list(a_set))
SetToSortedSeq(S) ==
    IF S = {} THEN << >>
    ELSE LET m == CHOOSE x \in S : \A y \in S : x <= y
         IN  <<m>> \o SetToSortedSeq(S \ {m})

Range(s) == {s[j] : j \in 1..Len(s)}

----------------------------------------------------------------------------
(* generate_special_primes (src/RSA_Multi_Method.py) *)

max_idx_1(maxv) == (maxv - 1) \div 6
max_idx_5(maxv) == (maxv - 5) \div 6

\* np.ones(max_idx + 1, dtype=bool): indices 0..max_idx, all True
NewSieve(max_idx) == [j \in 0..max_idx |-> TRUE]

\* for j in range(start, stop, step): s[j] = False
MarkRange(s, start, stop, step) ==
    [j \in DOMAIN s |->
        IF j >= start /\ j < stop /\ (j - start) % step = 0 THEN FALSE
        ELSE s[j]]

\* number of passes of the sieving loop: range(1, int(sqrt(max_value))//6 + 1)
SieveLoopEnd(maxv) == Isqrt(maxv) \div 6

\* the "6i + 1" half of one pass of the sieving loop; returns <<sieve_1, sieve_5>>
SieveClass1(s1, s5, i, maxv) ==
    IF s1[i]
    THEN LET p == 6 * i + 1
             start == (p * 5 - 5) \div 6
         IN  << MarkRange(s1, i + p, max_idx_1(maxv) + 1, p),
                IF start > 0 THEN MarkRange(s5, start, max_idx_5(maxv) + 1, p)
                ELSE s5 >>
    ELSE <<s1, s5>>

\* the "6i + 5" half of one pass of the sieving loop; returns <<sieve_1, sieve_5>>
SieveClass5(s1, s5, i, maxv) ==
    IF i <= max_idx_5(maxv) /\ s5[i]
    THEN LET p == 6 * i + 5
             start1 == (p * 1 - 1) \div 6
             start5 == (p * 5 - 5) \div 6
         IN  << IF start1 > 0 THEN MarkRange(s1, start1, max_idx_1(maxv) + 1, p)
                ELSE s1,
                IF start5 > 0 THEN MarkRange(s5, start5, max_idx_5(maxv) + 1, p)
                ELSE s5 >>
    ELSE <<s1, s5>>

\* one pass of the sieving loop for index i
SievePass(s1, s5, i, maxv) ==
    CHOOSE r \in {SieveClass5(a[1], a[2], i, maxv) :
                    a \in {SieveClass1(s1, s5, i, maxv)}} : TRUE

RECURSIVE CollectFrom(_, _, _, _)
\* for i in range(lo, max_idx + 1): if s[i]: append(6*i + r)
CollectFrom(s, i, max_idx, r) ==
    IF i > max_idx THEN << >>
    ELSE (IF s[i] THEN <<6 * i + r>> ELSE << >>)
         \o CollectFrom(s, i + 1, max_idx, r)

\* special_primes = [3]; the two conversion loops; special_primes.sort()
CollectPrimes(s1, s5, maxv) ==
    sorted(<<3>> \o CollectFrom(s1, 1, max_idx_1(maxv), 1)
                 \o CollectFrom(s5, 1, max_idx_5(maxv), 5))

RECURSIVE SieveLoop(_, _, _, _)
SieveLoop(s1, s5, i, maxv) ==
    IF i > SieveLoopEnd(maxv) THEN <<s1, s5>>
    ELSE CHOOSE r \in {SieveLoop(a[1], a[2], i + 1, maxv) :
                         a \in {SievePass(s1, s5, i, maxv)}} : TRUE

SpecialPrimesOf[maxv \in Nat] ==
    CHOOSE r \in {CollectPrimes(a[1], a[2], maxv) :
                    a \in {SieveLoop(NewSieve(max_idx_1(maxv)),
                                     NewSieve(max_idx_5(maxv)), 1, maxv)}} :
        TRUE

\* the whole function, as the orchestrator calls it
generate_special_primes(maxv) == SpecialPrimesOf[maxv]

----------------------------------------------------------------------------
(* Values of the variables of a function that is not running *)

SieveIdle ==
    /\ max_value = 0 /\ sieve_1 = << >> /\ sieve_5 = << >> /\ sieve_i = 0
    /\ primes_out = << >> /\ spc = "idle"

OrchIdle ==
    /\ n = 0 /\ max_prime = 0 /\ max_attempts = 0 /\ special_primes = << >>
    /\ result = << >> /\ pc = "idle" /\ ret_stage = 0 /\ direct_failed = FALSE

FanIdle ==
    /\ fn = 0 /\ max_power_list = << >> /\ cpu = 0 /\ poly_oracle = << >>
    /\ factors = {} /\ init_factors = {} /\ args_list = << >>
    /\ task_state = << >> /\ results = << >> /\ num_processes = 0
    /\ pool_created = FALSE /\ executed = 0 /\ found_factors = << >>
    /\ fpc = "idle"

----------------------------------------------------------------------------
(* generate_special_primes as a state machine: allocation, one step per    *)
(* pass of the sieving loop, then conversion and sort                      *)

SieveInit ==
    /\ max_value \in 3..MaxN
    /\ sieve_1 = << >> /\ sieve_5 = << >> /\ sieve_i = 0
    /\ primes_out = << >> /\ spc = "start"
    /\ OrchIdle /\ FanIdle

\* lines 20-29: the two bit arrays
SieveAlloc ==
    /\ spc = "start"
    /\ sieve_1' = NewSieve(max_idx_1(max_value))
    /\ sieve_5' = NewSieve(max_idx_5(max_value))
    /\ sieve_i' = 1
    /\ spc' = "loop"
    /\ UNCHANGED <<max_value, primes_out, orchVars, fanVars>>

\* lines 32-57: one pass of the sieving loop
SieveStep ==
    /\ spc = "loop"
    /\ sieve_i <= SieveLoopEnd(max_value)
    /\ LET a == SievePass(sieve_1, sieve_5, sieve_i, max_value)
       IN  sieve_1' = a[1] /\ sieve_5' = a[2]
    /\ sieve_i' = sieve_i + 1
    /\ UNCHANGED <<max_value, primes_out, spc, orchVars, fanVars>>

\* lines 59-71: conversion, sort, return
SieveCollect ==
    /\ spc = "loop"
    /\ sieve_i > SieveLoopEnd(max_value)
    /\ primes_out' = CollectPrimes(sieve_1, sieve_5, max_value)
    /\ spc' = "done"
    /\ UNCHANGED <<max_value, sieve_1, sieve_5, sieve_i, orchVars, fanVars>>

SieveNext == SieveAlloc \/ SieveStep \/ SieveCollect

SieveSpec == SieveInit /\ [][SieveNext]_vars

\* the step-by-step run and the function the orchestrator calls agree
SieveRunMatchesFunction ==
    spc = "done" => primes_out = generate_special_primes(max_value)

----------------------------------------------------------------------------
(* factor_large_semiprime (src/RSA_Multi_Method.py) *)

\* line 109
small_primes ==
    <<3, 5, 7, 11, 13, 17, 19, 23, 29, 31, 37, 41, 43, 47, 53, 59, 61, 67>>

\* line 140
batch_size == 1000

\* line 191: fields above this order are skipped
field_limit == 1000000

\* largest max_prime the orchestrator is run with
MaxPrimeCeiling == 100

\* Targets above the small-prime list: products of primes larger than 67
BigTargets == {71 * 71, 71 * 73, 73 * 79, 71 * 71 * 71}

Targets == (1..MaxTarget) \cup BigTargets

\* [Integer(p) for p, _ in factors]  /  for f, _ in sub_factors: append(f)
PrimesOf(f) == [j \in 1..Len(f) |-> f[j][1]]

FirstDivisorOf[primes \in Seq(Int), x \in Nat] ==
    IF primes = << >> THEN 0
    ELSE IF x % Head(primes) = 0 THEN Head(primes)
    ELSE FirstDivisorOf[Tail(primes), x]

\* the loop of line 110 started at the second prime
FirstDivisorSkippingFirst(primes, x) ==
    IF primes = << >> THEN 0 ELSE FirstDivisorOf[Tail(primes), x]

\* for p in primes: if n % p == 0: ...   (0 when the loop finds nothing)
FirstDivisor(primes, x) == FirstDivisorOf[primes, x]

\* return [p, other]
PrimeCofactorResult(p, x) == <<p, x \div p>>

\* result = [p]; append every prime of factor(other); return sorted(result)
CompositeCofactorResult(p, x) == sorted(<<p>> \o PrimesOf(factor(x \div p)))

\* line 136: the bound handed to the sieve
SieveBound(x, mp) == Min(Isqrt(x) + 1, mp)

\* line 141 rounded down instead of up
total_batches_floor(sp) == Len(sp) \div batch_size

\* line 141
total_batches(sp) == (Len(sp) + batch_size - 1) \div batch_size

\* lines 144-146: special_primes[start_idx:end_idx] of batch batch_idx
current_batch(sp, batch_idx) ==
    SubSeq(sp, batch_idx * batch_size + 1,
           Min((batch_idx + 1) * batch_size, Len(sp)))

BatchScanOf[sp \in Seq(Int), batch_idx \in Nat, x \in Nat] ==
    IF batch_idx >= total_batches(sp) THEN 0
    ELSE LET d == FirstDivisorOf[current_batch(sp, batch_idx), x]
         IN  IF d # 0 THEN d ELSE BatchScanOf[sp, batch_idx + 1, x]

\* lines 143-153: the first prime of the pool dividing x, batch after batch
BatchScan(sp, batch_idx, x) == BatchScanOf[sp, batch_idx, x]

\* line 185: special_primes[::10]
selected_primes(sp) ==
    [j \in 1..((Len(sp) + 9) \div 10) |-> sp[10 * (j - 1) + 1]]

\* GF(q, 'a') exists only for a prime power q (it raises otherwise)
IsPrimePower(q) == q >= 2 /\ StripFactor(q, SmallestDivisor(q)) = 1

\* the characteristic of GF(q)
FieldChar(q) == SmallestDivisor(q)

\* cyclotomic_polynomial(m) for the window m = 3..6, evaluated at x
cyclotomic_polynomial(m, x) ==
    CASE m = 3 -> x * x + x + 1
      [] m = 4 -> x * x + 1
      [] m = 5 -> x * x * x * x + x * x * x + x * x + x + 1
      [] m = 6 -> x * x - x + 1

\* lines 200-201: Phi_m over GF(q) at Integer(n % p), an element of the prime
\* subfield
eval_value(m, x, p, q) == cyclotomic_polynomial(m, x % p) % FieldChar(q)

\* line 202 without its divisibility test
CycloHitEvalOnly(x, p, q, m) == eval_value(m, x, p, q) = 0

\* line 202
CycloHit(x, p, q, m) == eval_value(m, x, p, q) = 0 /\ x % p = 0

\* lines 188-194: the k loop reaches power k (no break at a smaller power)
KReached(p, k) ==
    \A j \in 1..k : Pow(p, j) <= field_limit /\ IsPrimePower(Pow(p, j))

\* lines 188-202: some (k, m) flags p
ProbeHits(x, p, ma) ==
    \E k \in 1..ma :
        KReached(p, k) /\ \E m \in 3..6 : CycloHit(x, p, Pow(p, k), m)

RECURSIVE Stage4Scan(_, _, _, _)
\* lines 187-224: the first selected prime that is flagged and whose branch
\* returns; a raise of factor(other) is swallowed at line 221 (failing is
\* the set of primes for which it raises) and the loops go on
Stage4Scan(sel, x, ma, failing) ==
    IF sel = << >> THEN << >>
    ELSE LET p == Head(sel)
         IN  IF ProbeHits(x, p, ma) /\ is_prime(x \div p)
             THEN PrimeCofactorResult(p, x)
             ELSE IF ProbeHits(x, p, ma) /\ p \notin failing
             THEN CompositeCofactorResult(p, x)
             ELSE Stage4Scan(Tail(sel), x, ma, failing)

\* before the call
OrchInit ==
    /\ n = 0 /\ max_prime = 0 /\ max_attempts = 0
    /\ special_primes = << >>
    /\ result = << >>
    /\ pc = "entry"
    /\ ret_stage = 0
    /\ direct_failed = FALSE
    /\ SieveIdle /\ FanIdle

\* line 73, 88: the call factor_large_semiprime(n, max_prime, max_attempts)
OrchCall ==
    /\ pc = "entry"
    /\ n' \in Targets
    /\ max_prime' \in {2, 10, MaxPrimeCeiling}
    /\ max_attempts' \in 1..MaxAttempts
    /\ pc' = "stage1"
    /\ UNCHANGED <<special_primes, result, ret_stage, direct_failed,
                   sieveVars, fanVars>>

Return(stage, res) ==
    /\ result' = res
    /\ ret_stage' = stage
    /\ pc' = "done"

\* lines 95-101: factor(n) answers
Stage1Direct ==
    /\ pc = "stage1"
    /\ Return(1, PrimesOf(factor(n)))
    /\ UNCHANGED <<n, max_prime, max_attempts, special_primes, direct_failed,
                   sieveVars, fanVars>>

\* lines 102-104: factor(n) raises, the exception is caught
Stage1Raise ==
    /\ pc = "stage1"
    /\ direct_failed' = TRUE
    /\ pc' = "stage2"
    /\ UNCHANGED <<n, max_prime, max_attempts, special_primes, result,
                   ret_stage, sieveVars, fanVars>>

\* lines 110-119
Stage2PrimeCofactor ==
    /\ pc = "stage2"
    /\ LET p == FirstDivisor(small_primes, n)
       IN  /\ p # 0
           /\ is_prime(n \div p)
           /\ Return(2, PrimeCofactorResult(p, n))
    /\ UNCHANGED <<n, max_prime, max_attempts, special_primes, direct_failed,
                   sieveVars, fanVars>>

\* lines 110-114, 120-129: factor(other) answers
Stage2CompositeCofactor ==
    /\ pc = "stage2"
    /\ LET p == FirstDivisor(small_primes, n)
       IN  /\ p # 0
           /\ ~is_prime(n \div p)
           /\ Return(2, CompositeCofactorResult(p, n))
    /\ UNCHANGED <<n, max_prime, max_attempts, special_primes, direct_failed,
                   sieveVars, fanVars>>

\* lines 110-114, 122: factor(other) raises outside any try block
Stage2FactorRaises ==
    /\ pc = "stage2"
    /\ LET p == FirstDivisor(small_primes, n)
       IN  p # 0 /\ ~is_prime(n \div p)
    /\ pc' = "raised"
    /\ UNCHANGED <<n, max_prime, max_attempts, special_primes, result,
                   ret_stage, direct_failed, sieveVars, fanVars>>

\* lines 110-111, 130-131: no small prime divides n
Stage2NoDivisor ==
    /\ pc = "stage2"
    /\ FirstDivisor(small_primes, n) = 0
    /\ pc' = "stage3"
    /\ UNCHANGED <<n, max_prime, max_attempts, special_primes, result,
                   ret_stage, direct_failed, sieveVars, fanVars>>

\* lines 136-161
Stage3PrimeCofactor ==
    /\ pc = "stage3"
    /\ LET sp == generate_special_primes(SieveBound(n, max_prime))
           p  == BatchScan(sp, 0, n)
       IN  /\ p # 0
           /\ is_prime(n \div p)
           /\ special_primes' = sp
           /\ Return(3, PrimeCofactorResult(p, n))
    /\ UNCHANGED <<n, max_prime, max_attempts, direct_failed, sieveVars,
                   fanVars>>

\* lines 136-156, 162-172: factor(other) answers
Stage3CompositeCofactor ==
    /\ pc = "stage3"
    /\ LET sp == generate_special_primes(SieveBound(n, max_prime))
           p  == BatchScan(sp, 0, n)
       IN  /\ p # 0
           /\ ~is_prime(n \div p)
           /\ special_primes' = sp
           /\ Return(3, CompositeCofactorResult(p, n))
    /\ UNCHANGED <<n, max_prime, max_attempts, direct_failed, sieveVars,
                   fanVars>>

\* lines 136-156, 164: factor(other) raises outside any try block
Stage3FactorRaises ==
    /\ pc = "stage3"
    /\ LET sp == generate_special_primes(SieveBound(n, max_prime))
           p  == BatchScan(sp, 0, n)
       IN  /\ p # 0
           /\ ~is_prime(n \div p)
           /\ special_primes' = sp
    /\ pc' = "raised"
    /\ UNCHANGED <<n, max_prime, max_attempts, result, ret_stage,
                   direct_failed, sieveVars, fanVars>>

\* lines 136-153, 174-178: every batch is exhausted
Stage3NoDivisor ==
    /\ pc = "stage3"
    /\ LET sp == generate_special_primes(SieveBound(n, max_prime))
       IN  /\ BatchScan(sp, 0, n) = 0
           /\ special_primes' = sp
    /\ pc' = "stage4"
    /\ UNCHANGED <<n, max_prime, max_attempts, result, ret_stage,
                   direct_failed, sieveVars, fanVars>>

\* lines 185-231: the probe over the strided subsample; returns the first
\* hit, or [] when every candidate is exhausted
Stage4Probe ==
    /\ pc = "stage4"
    /\ \E failing \in SUBSET Range(selected_primes(special_primes)) :
          Return(4, Stage4Scan(selected_primes(special_primes), n,
                               max_attempts, failing))
    /\ UNCHANGED <<n, max_prime, max_attempts, special_primes, direct_failed,
                   sieveVars, fanVars>>

OrchNext ==
    \/ OrchCall
    \/ Stage1Direct
    \/ Stage1Raise
    \/ Stage2PrimeCofactor
    \/ Stage2CompositeCofactor
    \/ Stage2FactorRaises
    \/ Stage2NoDivisor
    \/ Stage3PrimeCofactor
    \/ Stage3CompositeCofactor
    \/ Stage3FactorRaises
    \/ Stage3NoDivisor
    \/ Stage4Probe

OrchSpec == OrchInit /\ [][OrchNext]_vars

\* the function runs sequentially and to completion: a stage that can run does
FairOrchSpec == OrchSpec /\ WF_vars(OrchNext)

\* verify_factorization (src/John_D_Cook.py, lines 153-157)
RECURSIVE Product(_)
Product(s) == IF s = << >> THEN 1 ELSE Head(s) * Product(Tail(s))

verify_factorization(number, fs) == Product(fs) = number

----------------------------------------------------------------------------
(* laplacian_eigenfunction_approach and find_factors_using_finite_fields   *)
(* (src/John_D_Cook.py)                                                    *)

\* irreducible factors the finite-field polynomial factorizer may report for
\* x^m - 1, as all_coeffs() lists them (highest degree first): x - 1, x + 1
PolyPool == {<<1, -1>>, <<1, 1>>}

\* max_power_list arguments the fan-out is run with
PowerLists == {<< >>, <<1>>, <<1, 2>>, <<2, 3>>}

DecodeOf[coeffs \in Seq(Int), p \in Nat] ==
    IF coeffs = << >> THEN 0
    ELSE coeffs[Len(coeffs)]
           + p * DecodeOf[SubSeq(coeffs, 1, Len(coeffs) - 1), p]

\* lines 54-57: the coefficients, lowest degree first, read as digits base p
Decode(coeffs, p) == DecodeOf[coeffs, p]

\* line 26: q > 10**12, written with numbers that fit 32 bits
FieldTooLarge(q) ==
    \/ q \div 1000000 > 1000000
    \/ (q \div 1000000 = 1000000 /\ q % 1000000 > 0)

\* lines 21-79: one probe task; polys is what the polynomial factorizer
\* reports over GF(p) along the m loop
laplacian_eigenfunction_approach(args, polys) ==
    LET p == args[1]
        k == args[2]
        x == args[3]
        q == Pow(p, k)
    IN  IF FieldTooLarge(q) THEN {}
        ELSE IF k # 1 THEN {}
        ELSE {v \in {Decode(c, p) : c \in polys} : v # 0 /\ x % v = 0}

\* lines 102-107: the initial prime factors
InitialFactors(x) ==
    IF is_prime(x) THEN {x} ELSE Range(PrimesOf(factor(x)))

\* line 116
prime_factors(fs) ==
    SetToSortedSeq({p \in fs : is_prime(p) /\ p % 6 \in {1, 5}})

RECURSIVE BuildArgs(_, _, _)
\* lines 119-122: one task per (prime, power), primes outermost
BuildArgs(pfs, mpl, x) ==
    IF pfs = << >> THEN << >>
    ELSE [j \in 1..Len(mpl) |-> <<Head(pfs), mpl[j], x, FALSE>>]
         \o BuildArgs(Tail(pfs), mpl, x)

\* line 129 made to create the pool whatever the task list
NeedsPoolAlways(args) == TRUE

\* line 129: if args_list
NeedsPool(args) == args # << >>

\* lines 133-134 with the last result left out
CombineAllButLast(fs, res) ==
    fs \cup UNION {res[j] : j \in 1..(Len(res) - 1)}

\* lines 133-134: for result in results: factors.update(result)
Combine(fs, res) == fs \cup UNION {res[j] : j \in 1..Len(res)}

Running == {j \in 1..Len(args_list) : task_state[j] = "running"}

FanInit ==
    /\ fn \in 1..MaxFanN
    /\ max_power_list \in PowerLists
    /\ cpu \in 1..MaxCpu
    /\ poly_oracle \in
         [Range(prime_factors(InitialFactors(fn))) -> SUBSET PolyPool]
    /\ factors = {} /\ init_factors = {} /\ args_list = << >>
    /\ task_state = << >> /\ results = << >> /\ num_processes = 0
    /\ pool_created = FALSE /\ executed = 0 /\ found_factors = << >>
    /\ fpc = "start"
    /\ SieveIdle /\ OrchIdle

\* lines 93-127: initial factors, task list, number of processes
FanPrepare ==
    /\ fpc = "start"
    /\ LET fs   == InitialFactors(fn)
           args == BuildArgs(prime_factors(fs), max_power_list, fn)
       IN  /\ factors' = fs
           /\ init_factors' = fs
           /\ args_list' = args
           /\ task_state' = [j \in 1..Len(args) |-> "pending"]
           /\ results' = [j \in 1..Len(args) |-> {}]
           /\ num_processes' = Min(cpu, Len(args))
    /\ fpc' = "dispatch"
    /\ UNCHANGED <<fn, max_power_list, cpu, poly_oracle, pool_created,
                   executed, found_factors, sieveVars, orchVars>>

\* lines 108-110: MemoryError during the initial factorization
FanMemoryError ==
    /\ fpc = "start"
    /\ found_factors' = SetToSortedSeq(factors)
    /\ fpc' = "done"
    /\ UNCHANGED <<fn, max_power_list, cpu, poly_oracle, factors,
                   init_factors, args_list, task_state, results,
                   num_processes, pool_created, executed, sieveVars,
                   orchVars>>

\* lines 129-131: the pool is created and the tasks handed to it
FanCreatePool ==
    /\ fpc = "dispatch"
    /\ NeedsPool(args_list)
    /\ pool_created' = TRUE
    /\ fpc' = "map"
    /\ UNCHANGED <<fn, max_power_list, cpu, poly_oracle, factors,
                   init_factors, args_list, task_state, results,
                   num_processes, executed, found_factors, sieveVars,
                   orchVars>>

\* lines 129, 136-140: no task, no pool; return sorted(list(factors))
FanSkipPool ==
    /\ fpc = "dispatch"
    /\ ~NeedsPool(args_list)
    /\ found_factors' = SetToSortedSeq(factors)
    /\ fpc' = "done"
    /\ UNCHANGED <<fn, max_power_list, cpu, poly_oracle, factors,
                   init_factors, args_list, task_state, results,
                   num_processes, pool_created, executed, sieveVars,
                   orchVars>>

\* line 131: a free worker process takes a task
WorkerPick(j) ==
    /\ fpc = "map"
    /\ task_state[j] = "pending"
    /\ Cardinality(Running) < num_processes
    /\ task_state' = [task_state EXCEPT ![j] = "running"]
    /\ UNCHANGED <<fn, max_power_list, cpu, poly_oracle, factors,
                   init_factors, args_list, results, num_processes,
                   pool_created, executed, found_factors, fpc, sieveVars,
                   orchVars>>

\* line 131: a worker process finishes its task; map keeps the result at the
\* position of the task
WorkerFinish(j) ==
    /\ fpc = "map"
    /\ task_state[j] = "running"
    /\ task_state' = [task_state EXCEPT ![j] = "done"]
    /\ results' = [results EXCEPT ![j] =
         laplacian_eigenfunction_approach(args_list[j],
                                          poly_oracle[args_list[j][1]])]
    /\ executed' = executed + 1
    /\ UNCHANGED <<fn, max_power_list, cpu, poly_oracle, factors,
                   init_factors, args_list, num_processes, pool_created,
                   found_factors, fpc, sieveVars, orchVars>>

\* lines 131-140: map returns once every task is done; merge and return
FanCombine ==
    /\ fpc = "map"
    /\ \A j \in 1..Len(args_list) : task_state[j] = "done"
    /\ factors' = Combine(factors, results)
    /\ found_factors' = SetToSortedSeq(factors')
    /\ fpc' = "done"
    /\ UNCHANGED <<fn, max_power_list, cpu, poly_oracle, init_factors,
                   args_list, task_state, results, num_processes,
                   pool_created, executed, sieveVars, orchVars>>

FanNext ==
    \/ FanPrepare
    \/ FanMemoryError
    \/ FanCreatePool
    \/ FanSkipPool
    \/ \E j \in 1..Len(args_list) : WorkerPick(j)
    \/ \E j \in 1..Len(args_list) : WorkerFinish(j)
    \/ FanCombine

FanSpec == FanInit /\ [][FanNext]_vars

----------------------------------------------------------------------------
(* Properties of generate_special_primes *)

StrictlyAscending(s) == \A j \in 1..(Len(s) - 1) : s[j] < s[j + 1]

\* C2: the returned list holds primes only, each at most N, each congruent to
\* 1 or 5 mod 6 except 3, in strictly ascending order without duplicates.
C2_SieveOutputSound ==
    spc = "done" =>
        /\ \A j \in 1..Len(primes_out) :
              /\ is_prime(primes_out[j])
              /\ primes_out[j] <= max_value
              /\ (primes_out[j] = 3 \/ primes_out[j] % 6 \in {1, 5})
        /\ StrictlyAscending(primes_out)

\* C3: for N >= 3 the returned list holds every prime p with 3 <= p <= N; in
\* particular the list for N = 20 is [3, 5, 7, 11, 13, 17, 19].
C3_SieveComplete ==
    (spc = "done" /\ max_value >= 3) =>
        /\ \A q \in 3..max_value : is_prime(q) => q \in Range(primes_out)
        /\ max_value = 20 => primes_out = <<3, 5, 7, 11, 13, 17, 19>>

----------------------------------------------------------------------------
(* Properties of factor_large_semiprime *)

NoDuplicates(s) == \A i, j \in 1..Len(s) : i # j => s[i] # s[j]

\* Target = p * c with p in the small-prime list and c prime
IsSmallTimesPrime(x) ==
    \E j \in 1..Len(small_primes) :
        x % small_primes[j] = 0 /\ is_prime(x \div small_primes[j])

\* the set {p, c} of such a Target
SmallPrimePair(x) ==
    LET p == CHOOSE q \in Range(small_primes) :
                 x % q = 0 /\ is_prime(x \div q)
    IN  {p, x \div p}

\* no small prime and no prime of the generated pool divides x (the probed
\* primes are a subsample of the pool)
NoDivisors(x, mp) ==
    /\ FirstDivisor(small_primes, x) = 0
    /\ \A p \in Range(generate_special_primes(SieveBound(x, mp))) : x % p # 0

\* C1: whenever the orchestrator returns a nonempty factor list, the product
\* of the returned elements equals Target (verify_factorization is true).
C1_VerificationHolds ==
    (pc = "done" /\ result # << >>) => verify_factorization(n, result)

\* C4: a failure of the general factorizer never leaves the orchestrator:
\* no run ends with an exception raised to the caller.
C4_FactorizerFailureAbsorbed == pc # "raised"

\* C9: the returned factor list never contains the same integer twice.
C9_ResultHasNoDuplicates == pc = "done" => NoDuplicates(result)

\* C5 as stated: a Target p * c (p a small prime, c prime) terminates at
\* stage 2 with result {p, c}.
C5_AsStated ==
    (IsSmallTimesPrime(n) /\ pc = "done")
        => (ret_stage = 2 /\ Range(result) = SmallPrimePair(n))

\* C5 amended: a Target p * c (p a small prime, c prime) never enters stage 3
\* or stage 4 and never raises; it terminates, at stage 1 when the direct
\* factorization answers and at stage 2 when it raises, and the returned
\* elements are exactly {p, c}.
C5_TerminatesByStage2 ==
    /\ [](IsSmallTimesPrime(n) =>
            /\ pc \notin {"stage3", "stage4", "raised"}
            /\ pc = "done" =>
                 /\ ret_stage = (IF direct_failed THEN 2 ELSE 1)
                 /\ Range(result) = SmallPrimePair(n))
    /\ ((IsSmallTimesPrime(n) /\ pc \in {"stage1", "stage2"}) ~> (pc = "done"))

\* C5 witness: 3 x 101 returned by stage 2 as [3, 101]
C5_Witness ==
    n = 303 /\ pc = "done" /\ ret_stage = 2 /\ result = <<3, 101>>

\* C6 as stated: a Target with no divisor among the small primes, the special
\* primes and the probed primes returns an empty list.
C6_AsStated ==
    (NoDivisors(n, max_prime) /\ pc = "done") => result = << >>

\* C6 amended: once the direct factorization has raised, a Target with no
\* divisor among the small primes, the special primes and the probed primes
\* terminates at stage 4 with an empty list; it never raises and never
\* returns a partial result.
C6_StageExhaustion ==
    /\ [](NoDivisors(n, max_prime) =>
            /\ pc # "raised"
            /\ (pc = "done" /\ direct_failed) =>
                 (result = << >> /\ ret_stage = 4))
    /\ ((NoDivisors(n, max_prime) /\ pc = "stage2")
            ~> (pc = "done" /\ result = << >>))

\* C6 witness: the prime 71 passed through all four stages and came back empty
C6_Witness ==
    /\ n = 71 /\ NoDivisors(n, max_prime) /\ direct_failed
    /\ pc = "done" /\ ret_stage = 4 /\ result = << >>

\* C10: every run that reaches stage 4 has found no divisor of Target in the
\* whole special-prime pool, and every run that returns from stage 4 returns
\* the empty list.
C10_Stage4NeverSucceeds ==
    /\ pc = "stage4" => \A p \in Range(special_primes) : n % p # 0
    /\ (pc = "done" /\ ret_stage = 4) => result = << >>

\* C10 witness: 73 x 79 under max_prime = 100 came back empty from stage 4
\* after a probe of a subsample of two primes of the pool
C10_Witness ==
    /\ n = 73 * 79 /\ pc = "done" /\ ret_stage = 4
    /\ Len(selected_primes(special_primes)) >= 2
    /\ Len(selected_primes(special_primes)) < Len(special_primes)

----------------------------------------------------------------------------
(* Properties of find_factors_using_finite_fields *)

\* what the tasks of the list yield when run one after the other
SequentialResults ==
    UNION {laplacian_eigenfunction_approach(args_list[j],
                                            poly_oracle[args_list[j][1]]) :
             j \in 1..Len(args_list)}

\* C7: for a nonempty task list, whatever the number of workers and the order
\* in which tasks are picked up and completed, the factor set is untouched
\* while the pool runs, and after the fan-out it is the set before dispatch
\* united with the results of all tasks, every task having completed.
C7_FanOutMerge ==
    /\ fpc = "map" => factors = init_factors
    /\ (fpc = "done" /\ args_list # << >>) =>
          /\ \A j \in 1..Len(args_list) : task_state[j] = "done"
          /\ executed = Len(args_list)
          /\ factors = init_factors \cup SequentialResults
          /\ found_factors = SetToSortedSeq(factors)

\* C7 witness: two workers, several tasks, and a probe that found a factor
C7_Witness ==
    /\ fpc = "done" /\ Len(args_list) >= 2 /\ num_processes >= 2
    /\ factors # init_factors
    /\ \E j \in 1..Len(args_list) : results[j] = {}

\* C8 as stated: with an empty task list the function returns an empty factor
\* set, creates no pool and runs no probe task.
C8_AsStated ==
    (fpc = "done" /\ args_list = << >>) =>
        (found_factors = << >> /\ ~pool_created /\ executed = 0)

\* C8 amended: with an empty task list the fan-out adds nothing: the function
\* returns the sorted initial prime factors (empty only when there are none),
\* creates no pool and runs no probe task.
C8_EmptyTaskList ==
    (fpc = "done" /\ args_list = << >>) =>
        /\ factors = init_factors
        /\ found_factors = SetToSortedSeq(init_factors)
        /\ ~pool_created
        /\ executed = 0

\* C8 witness: 35 = 5 x 7 with an empty max_power_list returned as [5, 7]
C8_Witness ==
    /\ fpc = "done" /\ args_list = << >> /\ max_power_list = << >>
    /\ fn = 35 /\ found_factors = <<5, 7>>

====
